---- MODULE Spec2Model ----
(***************************************************************************)
(* Model of the parking-position checker: parking_data.py (the Redis       *)
(* backed ParkingDataManager) and parking_check.py (main: acquire, save,   *)
(* gate the notification, exit).                                           *)
(*                                                                         *)
(* Python dicts are TLA+ functions with a string domain (a record); a      *)
(* missing key is a key outside DOMAIN.  JSON text is a sequence of        *)
(* <<key, value>> pairs.  Python None and the empty byte string are both   *)
(* falsy and are both the empty sequence here.  The Korean message texts   *)
(* of the source are written in English.                                   *)
(***************************************************************************)
EXTENDS Naturals, Integers, Sequences, FiniteSets, TLC

\* ------------------------------------------------------------------ bounds
MaxRuns == 2        \* runs of main per behaviour
MaxCalls == 2       \* direct calls of the ParkingDataManager API per behaviour
MaxLimit == 2       \* largest limit passed to get_parking_history
MaxInvocations == 2 \* invocations of check_parking_location per behaviour
MaxSaves == 3       \* save_parking_info calls per behaviour of a working store

\* ------------------------------------------------------- program constants
HistoryKeep == 9    \* last index kept by ltrim(history_key, 0, 9)
HistoryMax == HistoryKeep + 1

\* ------------------------------------------------------------ dict helpers
\* None where bytes, a dict or a list is expected (all falsy when empty)
None == <<>>

\* truth value of a string, with a missing string read as ""
Truthy(v) == v # ""

\* dict.get(key, default)
Get(d, k, default) == IF k \in DOMAIN d THEN d[k] ELSE default

\* -------------------------------------------------------------------- JSON
SnapshotFields == <<"car_number", "status", "last_updated", "details", "error", "screenshot">>
EntryFields == <<"timestamp", "car_number", "change_type", "changes", "data">>

\* json.dumps of a dict whose keys, in insertion order, are `fields`
JsonDumps(d, fields) == [i \in 1..Len(fields) |-> <<fields[i], d[fields[i]]>>]

\* json.loads of an object: the dict of its members
JsonLoads(s) ==
  [k \in {s[i][1] : i \in 1..Len(s)} |-> (CHOOSE v \in {s[i][2] : i \in {j \in 1..Len(s) : s[j][1] = k}} : TRUE)]

\* ------------------------------------------------------------ redis keys
GenerateKey(car_number) == "parking:" \o car_number
GenerateHistoryKey(car_number) == "parking:history:" \o car_number

\* ------------------------------------------------- redis list commands
Min(a, b) == IF a < b THEN a ELSE b
Max(a, b) == IF a > b THEN a ELSE b

\* Redis index normalisation: a negative index counts from the tail.
FromIndex(len, start) == IF start < 0 THEN Max(len + start, 0) ELSE start
ToIndex(len, stop) == IF stop < 0 THEN len + stop ELSE Min(stop, len - 1)

\* LRANGE key start stop (zero-based, stop inclusive)
LRange(list, start, stop) ==
  LET from == FromIndex(Len(list), start)
      to == ToIndex(Len(list), stop)
  IN IF from > to \/ from >= Len(list) THEN <<>> ELSE SubSeq(list, from + 1, to + 1)

\* LTRIM key start stop keeps exactly the range LRANGE would return
LTrim(list, start, stop) == LRange(list, start, stop)

\* LPUSH key value
LPush(list, value) == <<value>> \o list

\* ------------------------------------------------ save_parking_info
MsgNoCar == "no car number"
MsgCreated == "new parking info saved"
MsgNoChange == "no change"
MsgSaveFailed == "redis save failed"

\* what dict.get(field) gives for a missing key
Missing == "<None>"

\* new_data of save_parking_info; t is current_time
NewData(result, t) ==
  [car_number |-> Get(result, "car_number", ""),
   status |-> Get(result, "status", "unknown"),
   last_updated |-> t,
   details |-> Get(result, "details", ""),
   error |-> Get(result, "error", ""),
   screenshot |-> Get(result, "screenshot", "")]

\* key_fields, in the order they are compared
KeyFields == <<"status", "details", "error">>

\* one line of change_message, stripped
ChangeMessage(field, old_value, new_value) ==
  field \o ": '" \o old_value \o "' -> '" \o new_value \o "'"

\* indexes of the key fields in which the stored dict and new_data differ
Differing(existing_data_dict, new_data) ==
  {i \in 1..Len(KeyFields) :
     Get(existing_data_dict, KeyFields[i], Missing) # Get(new_data, KeyFields[i], Missing)}

\* DetectChange comparing the whole stored dict, last_updated included
DetectChangeWholeDict(existing_data, new_data) ==
  IF existing_data # None
  THEN [is_changed |-> JsonLoads(existing_data) # new_data,
        change_message |-> IF JsonLoads(existing_data) # new_data THEN "changed" ELSE "",
        change_type |-> "update"]
  ELSE [is_changed |-> TRUE, change_message |-> MsgCreated, change_type |-> "create"]

\* DetectChange reporting the last differing key field instead of the first
DetectChangeLastField(existing_data, new_data) ==
  IF existing_data # None
  THEN LET existing_data_dict == JsonLoads(existing_data)
           diff == Differing(existing_data_dict, new_data)
       IN IF diff = {}
          THEN [is_changed |-> FALSE, change_message |-> "", change_type |-> "update"]
          ELSE LET last == CHOOSE i \in diff : \A j \in diff : i >= j
                   field == KeyFields[last]
               IN [is_changed |-> TRUE,
                   change_message |-> ChangeMessage(field,
                                                    Get(existing_data_dict, field, "N/A"),
                                                    Get(new_data, field, "N/A")),
                   change_type |-> "update"]
  ELSE [is_changed |-> TRUE, change_message |-> MsgCreated, change_type |-> "create"]

\* DetectChange reporting a change on every call
DetectChangeAlways(existing_data, new_data) ==
  [is_changed |-> TRUE,
   change_message |-> IF existing_data # None THEN "changed" ELSE MsgCreated,
   change_type |-> IF existing_data # None THEN "update" ELSE "create"]

\* DetectChange without the else branch for a missing snapshot
DetectChangeNoCreate(existing_data, new_data) ==
  IF existing_data # None
  THEN LET diff == Differing(JsonLoads(existing_data), new_data)
       IN [is_changed |-> diff # {},
           change_message |-> IF diff # {} THEN "changed" ELSE "",
           change_type |-> "update"]
  ELSE [is_changed |-> FALSE, change_message |-> "", change_type |-> "create"]

\* The change check: is_changed, change_message and the would-be change_type.
\* existing_data is the stored JSON text or None.
DetectChange(existing_data, new_data) ==
  IF existing_data # None
  THEN LET existing_data_dict == JsonLoads(existing_data)
           diff == Differing(existing_data_dict, new_data)
       IN IF diff = {}
          THEN [is_changed |-> FALSE, change_message |-> "", change_type |-> "update"]
          ELSE LET first == CHOOSE i \in diff : \A j \in diff : i <= j
                   field == KeyFields[first]
               IN [is_changed |-> TRUE,
                   change_message |-> ChangeMessage(field,
                                                    Get(existing_data_dict, field, "N/A"),
                                                    Get(new_data, field, "N/A")),
                   change_type |-> "update"]
  ELSE [is_changed |-> TRUE, change_message |-> MsgCreated, change_type |-> "create"]

\* history_entry of save_parking_info
HistoryEntry(t, car_number, change, new_data) ==
  [timestamp |-> t,
   car_number |-> car_number,
   change_type |-> change.change_type,
   changes |-> change.change_message,
   data |-> new_data]

\* json.dumps / json.loads of a history entry (the snapshot is nested in it)
JsonDumpsEntry(history_entry) ==
  JsonDumps([history_entry EXCEPT !.data = JsonDumps(history_entry.data, SnapshotFields)],
            EntryFields)

JsonLoadsEntry(item) ==
  LET entry == JsonLoads(item) IN [entry EXCEPT !.data = JsonLoads(entry.data)]

\* RedisSet writing the key only when it is missing
RedisSetIfAbsent(strings, key, value) ==
  IF strings[key] = None THEN [strings EXCEPT ![key] = value] ELSE strings

\* redis.set(key, value)
RedisSet(strings, key, value) == [strings EXCEPT ![key] = value]

\* The redis commands of save_parking_info, in order; "none" is no failure.
SaveFaults == {"none", "get", "set", "lpush", "ltrim"}

\* save_parking_info(result) against the store (strings, lists) at clock time
\* `clock`, with the command `fault` raising (when the call reaches it).
\* Gives the store after the call, the returned pair (is_changed, message),
\* whether the call raised, the command that did fail, and the number of
\* redis commands issued.
SaveParkingInfo(strings, lists, clock, result, fault) ==
  LET car_number == Get(result, "car_number", "")
      key == GenerateKey(car_number)
      history_key == GenerateHistoryKey(car_number)
      same == [strings |-> strings, lists |-> lists, clock |-> clock, raised |-> FALSE,
               is_changed |-> FALSE, message |-> MsgNoCar, failed |-> "none",
               commands |-> 0, existing_data |-> None]
  IN IF ~Truthy(car_number) THEN same
     ELSE IF fault = "get"
     THEN [same EXCEPT !.raised = TRUE, !.message = "", !.failed = "get", !.commands = 1]
     ELSE
       LET existing_data == strings[key]
           current_time == clock + 1
           new_data == NewData(result, current_time)
           new_data_json == JsonDumps(new_data, SnapshotFields)
           change == DetectChange(existing_data, new_data)
           read == [same EXCEPT !.clock = current_time, !.existing_data = existing_data]
           stored == RedisSet(strings, key, new_data_json)
           history_entry == HistoryEntry(current_time, car_number, change, new_data)
           pushed == LPush(lists[history_key], JsonDumpsEntry(history_entry))
       IN IF fault = "set"
          THEN [read EXCEPT !.message = MsgSaveFailed, !.failed = "set", !.commands = 2]
          ELSE IF ~change.is_changed
          THEN [read EXCEPT !.strings = stored, !.message = MsgNoChange, !.commands = 2]
          ELSE IF fault = "lpush"
          THEN [read EXCEPT !.strings = stored, !.message = MsgSaveFailed,
                            !.failed = "lpush", !.commands = 3]
          ELSE IF fault = "ltrim"
          THEN [read EXCEPT !.strings = stored,
                            !.lists = [lists EXCEPT ![history_key] = pushed],
                            !.message = MsgSaveFailed, !.failed = "ltrim", !.commands = 4]
          ELSE [read EXCEPT !.strings = stored,
                            !.lists = [lists EXCEPT ![history_key] =
                                         LTrim(pushed, 0, HistoryKeep)],
                            !.is_changed = TRUE, !.message = change.change_message,
                            !.commands = 4]

\* get_parking_info(car_number): the stored dict, or None when the key is
\* missing or the read raises
GetParkingInfo(strings, car_number, fault) ==
  LET data == IF fault THEN None ELSE strings[GenerateKey(car_number)]
  IN IF data # None THEN JsonLoads(data) ELSE None

\* get_parking_history(car_number, limit): [] when the read raises
GetParkingHistory(lists, car_number, limit, fault) ==
  IF fault THEN <<>>
  ELSE LET history_data == LRange(lists[GenerateHistoryKey(car_number)], 0, limit - 1)
       IN [i \in 1..Len(history_data) |-> JsonLoadsEntry(history_data[i])]

\* --------------------------------------------------- test_connection
\* A vehicle's snapshot key in place of the key of the connection test
TestKeyVehicle == GenerateKey("5678")

TestKey == "test:connection"
TestValue == <<"OK">>

\* The redis commands of test_connection, in order; "none" is no failure.
TestFaults == {"none", "ping", "set", "get", "delete"}

\* test_connection() with the command `fault` raising: the string keys after
\* it and the value it returns.
TestConnection(strings, fault) ==
  IF fault \in {"ping", "set"}
  THEN [strings |-> strings, value |-> FALSE]
  ELSE LET written == RedisSet(strings, TestKey, TestValue)
           retrieved == written[TestKey]
       IN IF fault \in {"get", "delete"}
          THEN [strings |-> written, value |-> FALSE]
          ELSE [strings |-> [written EXCEPT ![TestKey] = None],
                value |-> retrieved = TestValue]

\* sample_data of test_redis_connection
SampleData ==
  [car_number |-> "1234", status |-> "found", details |-> "sample parking info",
   last_updated |-> "now"]

\* ------------------------------------------- check_parking_location
ScreenshotLocation == "/tmp/parking_location.png"
ScreenshotDebug == "/tmp/parking_debug.png"

\* The stage of check_parking_location that fails ("none": no stage fails):
\* setup_driver, the PARKING_URL lookup, loading the page, finding the input
\* field, clicking the digits, clicking the search button (and then saving
\* the debug screenshot), saving the result screenshot, reading the body.
AllStages == {"none", "driver", "url", "load", "input", "digits", "search",
              "debug_screenshot", "screenshot", "parse"}

\* str(e) of the exception a stage raises
StageError(stage) ==
  CASE stage = "driver" -> "chrome not reachable"
    [] stage = "url" -> "PARKING_URL not set"
    [] stage = "load" -> "page load failed"
    [] stage = "input" -> "input field not found: no such element"
    [] stage = "digits" -> "car number input failed: no such element"
    [] stage = "search" -> "search button not found: no such element"
    [] stage = "debug_screenshot" -> "debug screenshot failed"
    [] stage = "screenshot" -> "screenshot failed"
    [] stage = "parse" -> "no body element"
    [] OTHER -> ""

\* CheckParkingLocation attaching no screenshot to an error result
CheckParkingLocationNoArtifact(car_number, stage, body_text) ==
  LET result ==
        IF stage = "none"
        THEN [car_number |-> car_number, status |-> "found",
              screenshot |-> ScreenshotLocation, details |-> body_text]
        ELSE [car_number |-> car_number, status |-> "error", error |-> StageError(stage)]
  IN [result |-> result, acquired |-> stage # "driver", quit |-> stage # "driver"]

\* check_parking_location(car_number) when `stage` fails and the page body
\* (already at most 500 characters) is body_text: the returned dict, whether
\* a driver was acquired and whether the finally clause quit it.
CheckParkingLocation(car_number, stage, body_text) ==
  LET failure == [car_number |-> car_number, status |-> "error", error |-> StageError(stage)]
      result ==
        CASE stage = "none" ->
               [car_number |-> car_number, status |-> "found",
                screenshot |-> ScreenshotLocation, details |-> body_text]
          [] stage = "search" ->
               [car_number |-> car_number, status |-> "error",
                error |-> StageError(stage), screenshot |-> ScreenshotDebug]
          [] stage = "parse" ->
               [car_number |-> car_number, status |-> "error",
                screenshot |-> ScreenshotLocation, error |-> StageError(stage)]
          [] OTHER -> failure
      driver == stage # "driver"
  IN [result |-> result, acquired |-> driver, quit |-> driver]

\* Finally leaving the browser session open
FinallyNoQuit(driver) == driver

\* the finally clause: `if driver: driver.quit()`
Finally(driver) == IF driver = "open" THEN "quit" ELSE driver

\* ------------------------------------------------- ParkingDataManager()
\* How construction goes: the credentials are missing; the ping succeeds;
\* the ping fails with "getaddrinfo failed"; the ping fails with another
\* message (for instance "Connection closed by server").
Connections == {"nocreds", "ok", "dns", "refused"}

\* Manager with the construction error ignored
ManagerAlways(conn) == TRUE

\* Whether main holds a manager after the try/except around ParkingDataManager().
\* Only the first `except Exception` clause of __init__ can run: it raises
\* ConnectionError for "getaddrinfo failed" and swallows every other error.
Manager(conn) == conn \in {"ok", "refused"}

\* ------------------------------------------------------------- main
\* ShouldNotify without the suppression
ShouldNotifyAlways(redis_manager, existing_data, redis_changed) == TRUE

\* should_notify of the found branch
ShouldNotify(redis_manager, existing_data, redis_changed) ==
  ~(redis_manager /\ existing_data # None /\ ~redis_changed)

\* Sends without the notification of the error branch
SendsFoundOnly(result, should_notify, webhook_url) ==
  Get(result, "status", Missing) = "found" /\ should_notify /\ webhook_url

\* whether the branch taken on `result` calls send_to_mattermost
Sends(result, should_notify, webhook_url) ==
  IF Get(result, "status", Missing) = "found"
  THEN should_notify /\ webhook_url
  ELSE webhook_url

\* ExitStatus without the sys.exit(1) of the error branch
ExitStatusZero(result) == 0

\* the exit status of main once a result was acquired
ExitStatus(result) == IF Get(result, "status", Missing) = "found" THEN 0 ELSE 1

\* ------------------------------------------------------------ inputs
Cars == {"1234", "5678"}                 \* vehicle identifiers with stored state
EnvCars == {"", "1234"}                  \* CAR_NUMBER: unset or set
Bodies == {"floor B2 slot 15", "floor B3 slot 07"}
Stages == {"none", "url", "search", "parse"}   \* stages main's acquisition fails at
Limits == 0..MaxLimit

\* results handed to save_parking_info directly (a client of the manager)
ApiResults ==
  {CheckParkingLocation("1234", "none", b).result : b \in Bodies}
    \cup {CheckParkingLocation("1234", "url", "").result,
          [car_number |-> "1234", status |-> "found", details |-> "floor B2 slot 15"],
          CheckParkingLocation("", "none", "floor B2 slot 15").result,
          CheckParkingLocation("5678", "none", "floor B2 slot 15").result}

StringKeys == {GenerateKey(c) : c \in Cars} \cup {TestKey}
ListKeys == {GenerateHistoryKey(c) : c \in Cars}

\* ------------------------------------------------------------- state
VARIABLES
  strings,        \* redis string keys: key -> JSON text, None when missing
  lists,          \* redis list keys: key -> sequence of JSON texts, head first
  now,            \* the last wall-clock time read by _get_kst_now
  detected,       \* per car, the entries of the calls that returned is_changed
  pc,             \* main: "idle", "acquire", "save", "notify", "done"
  car_number,     \* main: CAR_NUMBER
  conn,           \* main: how ParkingDataManager() went
  webhook_url,    \* main: whether MATTERMOST_WEBHOOK_URL is set
  result,         \* main: the dict check_parking_location returned
  redis_changed,  \* main: redis_changed
  info_fault,     \* main: whether the read of get_parking_info raised
  sent,           \* main: calls of send_to_mattermost in this run
  delivery,       \* main: "none", "ok" or "failed" (the webhook post)
  exit_code,      \* main: the exit status, -1 while running
  commands,       \* main: redis commands issued in this run
  runs,           \* finished runs of main
  calls,          \* direct calls of the manager API
  call,           \* the last save_parking_info call and what it found
  query,          \* the last read-side call of the manager and what it returned
  owed,           \* the found result whose notification a failed write held back
  xpc,            \* check_parking_location: the statement it is at
  xcar,           \* check_parking_location: its argument car_number
  driver,         \* check_parking_location: "none", "open" or "quit"
  typed,          \* check_parking_location: digits clicked so far
  xstage,         \* check_parking_location: the stage that failed, "none" so far
  xresult,        \* check_parking_location: the dict of its return statement
  invocations     \* finished invocations of check_parking_location

vars == <<strings, lists, now, detected, pc, car_number, conn, webhook_url, result,
          redis_changed, info_fault, sent, delivery, exit_code, commands, runs, calls,
          call, query, owed, xpc, xcar, driver, typed, xstage, xresult, invocations>>

store == <<strings, lists, now, detected>>
extractor == <<xpc, xcar, driver, typed, xstage, xresult, invocations>>
locals == <<car_number, conn, webhook_url, result, redis_changed, info_fault, sent,
            delivery, exit_code, commands>>

NoCall == [op |-> "none", result |-> None, failed |-> "none", raised |-> FALSE,
           is_changed |-> FALSE, message |-> "", existing_data |-> None,
           history |-> <<>>, commands |-> 0]

NoQuery == [op |-> "none", car_number |-> "", limit |-> 0, fault |-> FALSE,
            history |-> <<>>, stored |-> <<>>]

\* The store left by n earlier cycles for car 1234 that each found the car in
\* another slot than the cycle before and whose redis commands all succeeded.
RECURSIVE EarlierCycles(_)
EarlierCycles(n) ==
  IF n = 0
  THEN [strings |-> [k \in StringKeys |-> None], lists |-> [k \in ListKeys |-> <<>>],
        clock |-> 0]
  ELSE LET before == EarlierCycles(n - 1)
           body == IF n % 2 = 1 THEN "floor B2 slot 15" ELSE "floor B3 slot 07"
           saved == SaveParkingInfo(before.strings, before.lists, before.clock,
                                    CheckParkingLocation("1234", "none", body).result,
                                    "none")
       IN [strings |-> saved.strings, lists |-> saved.lists, clock |-> saved.clock]

\* numbers of earlier cycles the store starts from
InitCycles == {0, 1, HistoryKeep, HistoryMax}

Init ==
  /\ \E n \in InitCycles :
       LET s == EarlierCycles(n)
       IN /\ strings = s.strings
          /\ lists = s.lists
          /\ now = s.clock
          /\ detected = [c \in Cars |-> s.lists[GenerateHistoryKey(c)]]
  /\ pc = "idle"
  /\ car_number = ""
  /\ conn = "nocreds"
  /\ webhook_url = FALSE
  /\ result = None
  /\ redis_changed = FALSE
  /\ info_fault = FALSE
  /\ sent = 0
  /\ delivery = "none"
  /\ exit_code = -1
  /\ commands = 0
  /\ runs = 0
  /\ calls = 0
  /\ call = NoCall
  /\ query = NoQuery
  /\ owed = None
  /\ xpc = "idle"
  /\ xcar = ""
  /\ driver = "none"
  /\ typed = 0
  /\ xstage = "none"
  /\ xresult = None
  /\ invocations = 0

\* The effect on the store and on `call` of a save_parking_info(res) call
\* that went as `out` tells.
Commit(out, res) ==
  LET car == Get(res, "car_number", "")
  IN /\ strings' = out.strings
     /\ lists' = out.lists
     /\ now' = out.clock
     /\ detected' = IF out.is_changed
                    THEN [detected EXCEPT ![car] =
                            LPush(@, Head(out.lists[GenerateHistoryKey(car)]))]
                    ELSE detected
     /\ call' = [op |-> "save", result |-> res, failed |-> out.failed,
                 raised |-> out.raised, is_changed |-> out.is_changed,
                 message |-> out.message, existing_data |-> out.existing_data,
                 history |-> IF Truthy(car) THEN lists[GenerateHistoryKey(car)] ELSE <<>>,
                 commands |-> out.commands]

\* Save taking a failed read for a missing snapshot and going on
SaveReadAsAbsent(res, fault) ==
  IF fault = "get"
  THEN LET key == GenerateKey(Get(res, "car_number", ""))
           out == SaveParkingInfo([strings EXCEPT ![key] = None], lists, now, res, "none")
       IN Commit([out EXCEPT !.failed = "get"], res)
  ELSE Commit(SaveParkingInfo(strings, lists, now, res, fault), res)

\* One save_parking_info(res) call with the command `fault` raising.
Save(res, fault) == Commit(SaveParkingInfo(strings, lists, now, res, fault), res)

\* the fault is one the call runs into
Reached(res, fault) == SaveParkingInfo(strings, lists, now, res, fault).failed = fault

\* main, lines 256-274: read CAR_NUMBER, exit(1) without it, else construct
\* the manager (and read MATTERMOST_WEBHOOK_URL, line 280)
MainStart ==
  /\ pc = "idle"
  /\ runs < MaxRuns
  /\ \E car \in EnvCars, cn \in Connections, wh \in BOOLEAN :
       /\ car_number' = car
       /\ IF ~Truthy(car)
          THEN /\ cn = "nocreds" /\ wh = FALSE
               /\ pc' = "done"
               /\ exit_code' = 1
          ELSE /\ pc' = "acquire"
               /\ exit_code' = -1
       /\ conn' = cn
       /\ webhook_url' = wh
  /\ result' = None
  /\ redis_changed' = FALSE
  /\ info_fault' = FALSE
  /\ sent' = 0
  /\ delivery' = "none"
  /\ commands' = 0
  /\ call' = NoCall
  /\ UNCHANGED <<store, runs, calls, query, owed, extractor>>

\* main, line 277: result = check_parking_location(car_number)
MainAcquire ==
  /\ pc = "acquire"
  /\ \E stage \in Stages, body \in Bodies :
       result' = CheckParkingLocation(car_number, stage, body).result
  /\ pc' = "save"
  /\ UNCHANGED <<store, car_number, conn, webhook_url, redis_changed, info_fault, sent,
                 delivery, exit_code, commands, runs, calls, call, query, owed,
                 extractor>>

\* main, lines 282-293: save the result when there is a manager
MainSave ==
  /\ pc = "save"
  /\ IF Manager(conn) /\ result # None
     THEN \E fault \in SaveFaults :
            /\ Reached(result, fault)
            /\ Save(result, fault)
            /\ redis_changed' = (~call'.raised /\ call'.is_changed)
            /\ commands' = commands + call'.commands
     ELSE UNCHANGED <<store, redis_changed, commands, call>>
  /\ pc' = "notify"
  /\ UNCHANGED <<car_number, conn, webhook_url, result, info_fault, sent, delivery,
                 exit_code, runs, calls, query, owed, extractor>>

\* main, lines 295-325: the two branches on the status, and the exit status
MainNotify ==
  /\ pc = "notify"
  /\ \E fault \in BOOLEAN, post \in {"ok", "failed"} :
       LET found == Get(result, "status", Missing) = "found"
           reads == found /\ Manager(conn)
           existing_data == IF reads THEN GetParkingInfo(strings, car_number, fault)
                            ELSE None
           should_notify == ShouldNotify(Manager(conn), existing_data, redis_changed)
           sends == Sends(result, should_notify, webhook_url)
       IN /\ fault => reads
          /\ info_fault' = fault
          /\ commands' = IF reads THEN commands + 1 ELSE commands
          /\ sent' = IF sends THEN sent + 1 ELSE sent
          /\ delivery' = IF sends THEN post ELSE "none"
          /\ ~sends => post = "ok"
  /\ exit_code' = ExitStatus(result)
  /\ pc' = "done"
  /\ UNCHANGED <<store, car_number, conn, webhook_url, result, redis_changed, runs,
                 calls, call, query, owed, extractor>>

\* The run acquired a found result that differs from the stored snapshot (or
\* found none stored), a write of save_parking_info raised, and main did not
\* call send_to_mattermost.
HeldBack ==
  /\ webhook_url /\ Manager(conn)
  /\ Get(result, "status", Missing) = "found"
  /\ call.op = "save" /\ call.failed \in {"set", "lpush", "ltrim"}
  /\ DetectChange(call.existing_data, NewData(result, now)).is_changed
  /\ sent = 0

\* the process ends; the store stays
MainExit ==
  /\ pc = "done"
  /\ pc' = "idle"
  /\ runs' = runs + 1
  /\ car_number' = ""
  /\ conn' = "nocreds"
  /\ webhook_url' = FALSE
  /\ result' = None
  /\ redis_changed' = FALSE
  /\ info_fault' = FALSE
  /\ sent' = 0
  /\ delivery' = "none"
  /\ exit_code' = -1
  /\ commands' = 0
  /\ call' = NoCall
  /\ owed' = IF HeldBack THEN result
             ELSE IF sent > 0 /\ Get(result, "status", Missing) = "found" THEN None
             ELSE owed
  /\ UNCHANGED <<store, calls, query, extractor>>

\* a client calls manager.save_parking_info(result)
CallSave ==
  /\ pc = "idle"
  /\ calls < MaxCalls
  /\ \E res \in ApiResults, fault \in SaveFaults :
       /\ Reached(res, fault)
       /\ Save(res, fault)
  /\ calls' = calls + 1
  /\ UNCHANGED <<locals, pc, runs, query, owed, extractor>>

\* a client calls manager.get_parking_history(car_number, limit)
CallHistory ==
  /\ pc = "idle"
  /\ calls < MaxCalls
  /\ \E car \in Cars, limit \in Limits, fault \in BOOLEAN :
       query' = [op |-> "history", car_number |-> car, limit |-> limit, fault |-> fault,
                 history |-> GetParkingHistory(lists, car, limit, fault),
                 stored |-> lists[GenerateHistoryKey(car)]]
  /\ calls' = calls + 1
  /\ UNCHANGED <<store, locals, pc, runs, call, owed, extractor>>

\* a client calls manager.get_parking_info(car_number)
CallInfo ==
  /\ pc = "idle"
  /\ calls < MaxCalls
  /\ \E car \in Cars, fault \in BOOLEAN :
       query' = [op |-> "info", at |-> calls + 1, car_number |-> car, fault |-> fault,
                 data |-> GetParkingInfo(strings, car, fault),
                 stored |-> strings[GenerateKey(car)]]
  /\ calls' = calls + 1
  /\ UNCHANGED <<store, locals, pc, runs, call, owed, extractor>>

\* a client calls manager.test_connection()
CallTestConnection ==
  /\ pc = "idle"
  /\ calls < MaxCalls
  /\ \E fault \in TestFaults :
       LET out == TestConnection(strings, fault)
       IN /\ strings' = out.strings
          /\ query' = [op |-> "test_connection", at |-> calls + 1, fault |-> fault,
                       value |-> out.value, strings |-> strings, lists |-> lists]
  /\ calls' = calls + 1
  /\ UNCHANGED <<lists, now, detected, locals, pc, runs, call, owed, extractor>>

\* test_redis_connection(): construct the manager, test the connection and,
\* when that succeeds, save sample_data and read it back
CallTestRedisConnection ==
  /\ pc = "idle"
  /\ calls < MaxCalls
  /\ \E cn \in Connections, test_fault \in TestFaults, fault \in SaveFaults :
       LET test == TestConnection(strings, test_fault)
           saves == Manager(cn) /\ test.value
           out == SaveParkingInfo(test.strings, lists, now, SampleData, fault)
       IN /\ ~Manager(cn) => test_fault = "none"
          /\ IF saves
             THEN /\ out.failed = fault
                  /\ Commit(out, SampleData)
             ELSE /\ fault = "none"
                  /\ strings' = IF Manager(cn) THEN test.strings ELSE strings
                  /\ UNCHANGED <<lists, now, detected, call>>
          /\ query' = [op |-> "test_redis_connection", at |-> calls + 1, conn |-> cn,
                       fault |-> test_fault, saves |-> saves,
                       value |-> saves /\ ~out.raised,
                       strings |-> strings, lists |-> lists]
  /\ calls' = calls + 1
  /\ UNCHANGED <<locals, pc, runs, owed, extractor>>

\* a client calls manager.save_parking_info(result) and no redis command raises
CallSaveOk ==
  /\ pc = "idle"
  /\ calls < MaxSaves
  /\ \E res \in ApiResults : Save(res, "none")
  /\ calls' = calls + 1
  /\ UNCHANGED <<locals, pc, runs, query, owed, extractor>>

\* check_parking_location(car_number) is called: driver = None
XInvoke ==
  /\ xpc \in {"idle", "returned"}
  /\ invocations < MaxInvocations
  /\ \E car \in Cars : xcar' = car
  /\ xpc' = "setup"
  /\ driver' = "none"
  /\ typed' = 0
  /\ xstage' = "none"
  /\ xresult' = None
  /\ UNCHANGED <<store, locals, pc, runs, calls, call, query, owed, invocations>>

\* A statement of check_parking_location succeeds and control moves on.
XStep(from, to) ==
  /\ xpc = from
  /\ xpc' = to
  /\ UNCHANGED <<xstage, xresult>>

\* A return statement is reached (in the body or in an except clause) with
\* `stage` having failed; the finally clause is still to run.
XReturnStatement(from, stage, body_text) ==
  /\ xpc = from
  /\ xstage' = stage
  /\ xresult' = CheckParkingLocation(xcar, stage, body_text).result
  /\ xpc' = "finally"

\* line 62: driver = setup_driver()
XSetup ==
  /\ \/ XStep("setup", "url") /\ driver' = "open"
     \/ XReturnStatement("setup", "driver", "") /\ UNCHANGED driver
  /\ UNCHANGED <<store, locals, pc, runs, calls, call, query, owed, xcar, typed,
                 invocations>>

\* lines 63-71: PARKING_URL is set or not
XUrl ==
  /\ \/ XStep("url", "load")
     \/ XReturnStatement("url", "url", "")
  /\ UNCHANGED <<store, locals, pc, runs, calls, call, query, owed, xcar, driver, typed,
                 invocations>>

\* lines 74-80: driver.get(url) and driver.title
XLoad ==
  /\ \/ XStep("load", "input")
     \/ XReturnStatement("load", "load", "")
  /\ UNCHANGED <<store, locals, pc, runs, calls, call, query, owed, xcar, driver, typed,
                 invocations>>

\* lines 83-92: find the input field
XInput ==
  /\ \/ XStep("input", "digits")
     \/ XReturnStatement("input", "input", "")
  /\ UNCHANGED <<store, locals, pc, runs, calls, call, query, owed, xcar, driver, typed,
                 invocations>>

\* lines 95-113: click the input field, then one keypad link per digit
XDigits ==
  /\ \/ /\ typed < Len(xcar)
        /\ XStep("digits", "digits")
        /\ typed' = typed + 1
     \/ /\ typed = Len(xcar)
        /\ XStep("digits", "search")
        /\ UNCHANGED typed
     \/ /\ XReturnStatement("digits", "digits", "")
        /\ UNCHANGED typed
  /\ UNCHANGED <<store, locals, pc, runs, calls, call, query, owed, xcar, driver,
                 invocations>>

\* lines 116-120: find and click the search button
XSearch ==
  /\ \/ XStep("search", "screenshot")
     \/ XStep("search", "debug_screenshot")
  /\ UNCHANGED <<store, locals, pc, runs, calls, call, query, owed, xcar, driver, typed,
                 invocations>>

\* lines 121-131: the except clause of the search: save the debug screenshot
\* and return; an exception of save_screenshot goes to the outer except clause
XDebugScreenshot ==
  /\ \/ XReturnStatement("debug_screenshot", "search", "")
     \/ XReturnStatement("debug_screenshot", "debug_screenshot", "")
  /\ UNCHANGED <<store, locals, pc, runs, calls, call, query, owed, xcar, driver, typed,
                 invocations>>

\* lines 134-139: wait and save the result screenshot
XScreenshot ==
  /\ \/ XStep("screenshot", "parse")
     \/ XReturnStatement("screenshot", "screenshot", "")
  /\ UNCHANGED <<store, locals, pc, runs, calls, call, query, owed, xcar, driver, typed,
                 invocations>>

\* lines 142-166: read the body text and return the found result
XParse ==
  /\ \/ \E body \in Bodies : XReturnStatement("parse", "none", body)
     \/ XReturnStatement("parse", "parse", "")
  /\ UNCHANGED <<store, locals, pc, runs, calls, call, query, owed, xcar, driver, typed,
                 invocations>>

\* lines 176-178: the finally clause, then the result reaches the caller
XFinally ==
  /\ xpc = "finally"
  /\ driver' = Finally(driver)
  /\ xpc' = "returned"
  /\ invocations' = invocations + 1
  /\ UNCHANGED <<store, locals, pc, runs, calls, call, query, owed, xcar, typed, xstage,
                 xresult>>

\* runs of main, one after the other, against the store
Next ==
  \/ MainStart
  \/ MainAcquire
  \/ MainSave
  \/ MainNotify
  \/ MainExit

Spec == Init /\ [][Next]_vars

\* a client of ParkingDataManager calling its methods
NextApi ==
  \/ CallSave
  \/ CallHistory

SpecApi == Init /\ [][NextApi]_vars

\* a client writing and reading snapshots, and the connection-check entry point
NextStore ==
  \/ CallSave
  \/ CallInfo
  \/ CallTestConnection
  \/ CallTestRedisConnection

SpecStore == Init /\ [][NextStore]_vars

\* invocations of check_parking_location, statement by statement
NextExtract ==
  \/ XInvoke
  \/ XSetup
  \/ XUrl
  \/ XLoad
  \/ XInput
  \/ XDigits
  \/ XSearch
  \/ XDebugScreenshot
  \/ XScreenshot
  \/ XParse
  \/ XFinally

\* every statement of an invocation under way is eventually executed
SpecExtract == Init /\ [][NextExtract]_vars /\ WF_vars(NextExtract)

\* save_parking_info calls with a store whose commands all succeed
NextSaves == CallSaveOk

SpecSaves == Init /\ [][NextSaves]_vars

\* ================================================================ claims
Status == Get(result, "status", Missing)
RunDone == pc = "done" /\ Truthy(car_number)
CallCar == Get(call.result, "car_number", "")

\* the manager is there and no redis command of the run raised
StoreWorked == Manager(conn) /\ call.op = "save" /\ call.failed = "none" /\ ~info_fault

\* the dict and the result agree on status, details and error
SameCompared(dict, res) ==
  /\ dict.status = Get(res, "status", "unknown")
  /\ dict.details = Get(res, "details", "")
  /\ dict.error = Get(res, "error", "")

\* the call found a stored snapshot with the compared fields of its argument
FoundSame == /\ call.op = "save"
             /\ call.existing_data # None
             /\ SameCompared(JsonLoads(call.existing_data), call.result)

FirstN(s, n) == SubSeq(s, 1, Min(n, Len(s)))

\* C1: in a run with a webhook, a manager and every store command succeeding,
\* send_to_mattermost is called (once) iff the status is error, or it is found
\* and save_parking_info returned changed = true.
C1_NotificationGate ==
  (RunDone /\ webhook_url /\ StoreWorked) =>
    /\ sent <= 1
    /\ sent = 1 <=> (Status = "error" \/ (Status = "found" /\ call.is_changed))

\* a found result that changed nothing is not notified, with an empty history
C1_Witness ==
  /\ RunDone /\ webhook_url /\ StoreWorked
  /\ Status = "found" /\ ~call.is_changed /\ sent = 0
  /\ lists[GenerateHistoryKey(car_number)] = <<>>

\* C2: a run whose acquisition gives status error calls the notifier, whatever
\* is stored and whether the manager is there or failing; when the store
\* commands of the save succeed the snapshot under the key has status error.
C2_ErrorAlwaysNotifies ==
  (RunDone /\ Status = "error" /\ webhook_url) =>
    /\ sent = 1
    /\ (Manager(conn) /\ call.op = "save" /\ call.failed = "none") =>
         /\ strings[GenerateKey(car_number)] # None
         /\ JsonLoads(strings[GenerateKey(car_number)]).status = "error"

\* the same error as the one stored: changed = false, and still notified
C2_Witness ==
  /\ RunDone /\ Status = "error" /\ webhook_url /\ StoreWorked
  /\ FoundSame /\ ~call.is_changed /\ sent = 1

\* C3: a call that finds the stored snapshot equal in status, details and
\* error, with every store command succeeding, returns changed = false and
\* leaves the history list as it was; a found result is then not notified.
C3_Idempotent ==
  (FoundSame /\ call.failed = "none") =>
    /\ ~call.is_changed
    /\ lists[GenerateHistoryKey(CallCar)] = call.history
    /\ (RunDone /\ Status = "found" /\ ~info_fault) => sent = 0

\* an identical found result against a full history, webhook configured
C3_Witness ==
  /\ FoundSame /\ call.failed = "none"
  /\ RunDone /\ Status = "found" /\ ~info_fault /\ webhook_url /\ sent = 0
  /\ Len(call.history) = HistoryMax
  /\ lists[GenerateHistoryKey(CallCar)] = call.history

\* what C4 promises of a call that found no snapshot
InitialRecord ==
  /\ call.is_changed
  /\ call.message = MsgCreated
  /\ strings[GenerateKey(CallCar)] # None
  /\ LET stored == JsonLoads(strings[GenerateKey(CallCar)])
         history == lists[GenerateHistoryKey(CallCar)]
     IN /\ SameCompared(stored, call.result)
        /\ stored.car_number = CallCar
        /\ stored.screenshot = Get(call.result, "screenshot", "")
        /\ Len(history) = Len(call.history) + 1
        /\ Tail(history) = call.history
        /\ JsonLoadsEntry(Head(history)).change_type = "create"
        /\ JsonLoadsEntry(Head(history)).data = stored

C5_ChangedIffDiffers ==
  (call.op = "save" /\ ~call.raised /\ call.existing_data # None) =>
    (call.is_changed <=> ~SameCompared(JsonLoads(call.existing_data), call.result))

\* C6: after any sequence of save_parking_info calls the history list of a
\* vehicle holds at most 10 entries, ordered most recent first.
C6_HistoryBounded ==
  \A car \in Cars :
    LET history == lists[GenerateHistoryKey(car)]
    IN /\ Len(history) <= HistoryMax
       /\ \A i, j \in 1..Len(history) :
            i < j => JsonLoadsEntry(history[i]).timestamp > JsonLoadsEntry(history[j]).timestamp

\* C6, the rest of it: the list is the 10 most recent of the changes the
\* calls reported.
C6_MostRecentChanges ==
  \A car \in Cars :
    lists[GenerateHistoryKey(car)] = FirstN(detected[car], HistoryMax)

\* C7: a run whose snapshot write raises, with status found and a webhook,
\* still calls the notifier exactly once, whether or not a snapshot is stored
\* and whether or not it differs.  Stated for the case that matters most: a
\* snapshot is stored and the result differs from it in a compared field.
C7_NotifiesOnWriteFailure ==
  (RunDone /\ Manager(conn) /\ call.op = "save" /\ call.failed = "set"
     /\ Status = "found" /\ webhook_url
     /\ call.existing_data # None /\ ~FoundSame) => sent = 1

\* C8: the exit status is 1 when no identifier is configured or the status
\* is error and 0 when the status is found, whatever the store, the change
\* result, the webhook and the delivery did.
C8_ExitStatus ==
  /\ pc = "done" => exit_code = (IF ~Truthy(car_number) \/ Status = "error" THEN 1 ELSE 0)
  /\ pc # "done" => exit_code = -1

\* found, the snapshot write and the delivery both failed: exit status 0
C8_Witness ==
  /\ RunDone /\ Status = "found" /\ call.failed = "set" /\ delivery = "failed"
  /\ exit_code = 0

\* C9: without store credentials a run issues no redis command, and every
\* found result is notified when a webhook is configured.
C9_NoStoreWithoutCredentials ==
  (pc # "idle" /\ Truthy(car_number) /\ conn = "nocreds") =>
    /\ commands = 0
    /\ call.op = "none"
    /\ (pc = "done" /\ Status = "found" /\ webhook_url) => sent = 1

\* notified although the store holds a snapshot with the same details
C9_Witness ==
  /\ RunDone /\ conn = "nocreds" /\ Status = "found" /\ webhook_url /\ sent = 1
  /\ strings[GenerateKey(car_number)] # None
  /\ SameCompared(JsonLoads(strings[GenerateKey(car_number)]), result)

\* C10: get_parking_history returns at most limit entries, the most recent
\* ones of the stored list in its order, for every limit >= 0.
C10_HistoryLimit ==
  (query.op = "history" /\ query.limit >= 0) =>
    /\ Len(query.history) <= query.limit
    /\ \A i \in 1..Len(query.history) : query.history[i] = JsonLoadsEntry(query.stored[i])

\* the call wrote the snapshot (its read and its set went through)
Replaced == call.op = "save" /\ Truthy(CallCar) /\ call.failed \notin {"get", "set"}

\* the result of the call differs from the snapshot it found, or found none
Differs == call.existing_data = None
             \/ ~SameCompared(JsonLoads(call.existing_data), call.result)

\* C11: every call that creates or replaces the snapshot with other compared
\* fields puts exactly one entry on the history list, also when one of its
\* store writes fails; a call that detects no change puts none; the entries
\* already there stay as they were and leave only at the bound.
C11_OneEntryPerChange ==
  (call.op = "save" /\ Truthy(CallCar) /\ call.failed # "get") =>
    LET history == lists[GenerateHistoryKey(CallCar)]
    IN /\ (Replaced /\ Differs) =>
            /\ Len(history) >= 1
            /\ JsonLoadsEntry(Head(history)).timestamp = now
            /\ Tail(history) = FirstN(call.history, Len(history) - 1)
            /\ Len(history) - 1 >= Min(Len(call.history), HistoryMax - 1)
       /\ ~Differs => history = call.history

\* C17: with a webhook configured, a found result whose notification was held
\* back by a failing store write (set, lpush or ltrim) is notified in a later
\* run that acquires the same result with every store command succeeding.
C17_ChangeNotDropped ==
  (/\ RunDone /\ webhook_url /\ Manager(conn) /\ Status = "found"
   /\ owed # None /\ Differing(owed, result) = {}
   /\ call.op = "save" /\ call.failed = "none" /\ ~info_fault)
    => sent = 1

\* the summary the comparison in the order status, details, error gives
FirstDifference(old, new) ==
  IF old.status # Get(new, "status", "unknown")
  THEN ChangeMessage("status", old.status, Get(new, "status", "unknown"))
  ELSE IF old.details # Get(new, "details", "")
  THEN ChangeMessage("details", old.details, Get(new, "details", ""))
  ELSE ChangeMessage("error", old.error, Get(new, "error", ""))

\* C15: when the result differs from the stored snapshot, the summary the call
\* returns and the one in the history entry it records name the first
\* differing field in the order status, details, error, with the old and the
\* new value of that field, and nothing else (calls whose commands succeed).
C15_FirstDifferingField ==
  (/\ call.op = "save" /\ call.failed = "none"
   /\ call.existing_data # None
   /\ ~SameCompared(JsonLoads(call.existing_data), call.result))
    => LET summary == FirstDifference(JsonLoads(call.existing_data), call.result)
       IN /\ call.is_changed
          /\ call.message = summary
          /\ JsonLoadsEntry(Head(lists[GenerateHistoryKey(CallCar)])).changes = summary

C15_Witness ==
  /\ call.op = "save" /\ call.failed = "none"
  /\ call.existing_data # None
  /\ JsonLoads(call.existing_data).status # Get(call.result, "status", "unknown")
  /\ JsonLoads(call.existing_data).details # Get(call.result, "details", "")
  /\ JsonLoads(call.existing_data).error # Get(call.result, "error", "")
  /\ call.message = "status: 'found' -> 'error'"

\* C18: a save_parking_info call whose read of the stored snapshot raises lets
\* the exception reach its caller, reports no change, and leaves every
\* snapshot and every history list as it was.
C18_ReadFailurePropagates ==
  [][(call'.op = "save" /\ call'.failed = "get")
       => (call'.raised /\ ~call'.is_changed /\ strings' = strings /\ lists' = lists)]_vars

C18_Witness ==
  /\ call.op = "save" /\ call.failed = "get" /\ call.raised
  /\ strings[GenerateKey(CallCar)] # None
  /\ ~SameCompared(JsonLoads(strings[GenerateKey(CallCar)]), call.result)

\* C19: whenever the ping of ParkingDataManager() fails, main goes on without
\* a manager and issues no store command in that run.
C19_PingFailureNoManager ==
  (RunDone /\ conn \in {"dns", "refused"})
    => (~Manager(conn) /\ call.op = "none" /\ commands = 0)

\* the last call was get_parking_info for the car of the save before it
InfoAfterSave ==
  /\ query.op = "info" /\ query.at = calls /\ ~query.fault
  /\ call.op = "save" /\ Truthy(CallCar) /\ query.car_number = CallCar

\* C12: get_parking_info after a save_parking_info call whose snapshot write
\* succeeded returns the status, details and error of that call, stamped with
\* the time of that call, whether the call reported a change or not and
\* whatever its status; with no snapshot stored it returns None.
C12_GetReflectsLatestSave ==
  /\ (InfoAfterSave /\ call.failed \notin {"get", "set"}) =>
       /\ query.data # None
       /\ SameCompared(query.data, call.result)
       /\ query.data.last_updated = now
  /\ (query.op = "info" /\ query.at = calls /\ query.stored = None) => query.data = None

C12_Witness ==
  /\ InfoAfterSave /\ call.failed = "none"
  /\ call.message = MsgNoChange
  /\ query.data.last_updated > JsonLoads(call.existing_data).last_updated

C12_WitnessAbsent ==
  query.op = "info" /\ query.at = calls /\ ~query.fault /\ query.data = None

\* the snapshot and the history list of car `c` are as the last query found them
Untouched(c) ==
  /\ strings[GenerateKey(c)] = query.strings[GenerateKey(c)]
  /\ lists[GenerateHistoryKey(c)] = query.lists[GenerateHistoryKey(c)]

\* C16 as stated: test_redis_connection (and the test_connection it calls)
\* leaves the snapshot and the history list of every vehicle unchanged.
C16_ProbeTouchesNoVehicle ==
  (query.op \in {"test_connection", "test_redis_connection"} /\ query.at = calls)
    => \A c \in Cars : Untouched(c)

\* C16: test_connection leaves the snapshot and the history list of every
\* vehicle unchanged; test_redis_connection leaves those of every vehicle
\* other than 1234 unchanged, and touches those of 1234 only when its
\* connection test succeeded, by saving sample_data for it.
C16_ProbeFrame ==
  /\ (query.op = "test_connection" /\ query.at = calls) => \A c \in Cars : Untouched(c)
  /\ (query.op = "test_redis_connection" /\ query.at = calls) =>
       /\ \A c \in Cars \ {SampleData.car_number} : Untouched(c)
       /\ ~query.saves => Untouched(SampleData.car_number)
       /\ (query.saves /\ call.failed \notin {"get", "set"}) =>
            SameCompared(JsonLoads(strings[GenerateKey(SampleData.car_number)]), SampleData)

C16_Witness ==
  /\ query.op = "test_redis_connection" /\ query.at = calls /\ query.value
  /\ query.strings[GenerateKey("1234")] # None
  /\ ~Untouched("1234")
  /\ Len(lists[GenerateHistoryKey("1234")]) > Len(query.lists[GenerateHistoryKey("1234")])

C16_WitnessProbe ==
  /\ query.op = "test_connection" /\ query.at = calls /\ query.value
  /\ query.strings[GenerateKey("1234")] # None

\* the snapshot embedded in the i-th history entry of car c
Embedded(c, i) == JsonLoadsEntry(lists[GenerateHistoryKey(c)][i]).data

\* C20: with every store command succeeding, a car with a non-empty history
\* list has a snapshot whose status, details and error are those embedded in
\* the head entry, and no two adjacent entries embed the same status, details
\* and error.
C20_HistoryAgreesWithSnapshot ==
  \A c \in Cars :
    LET history == lists[GenerateHistoryKey(c)]
    IN history # <<>> =>
         /\ strings[GenerateKey(c)] # None
         /\ SameCompared(JsonLoads(strings[GenerateKey(c)]), Embedded(c, 1))
         /\ \A i \in 1..(Len(history) - 1) :
              ~SameCompared(Embedded(c, i), Embedded(c, i + 1))

C20_Witness ==
  /\ call.op = "save" /\ call.message = MsgNoChange
  /\ Len(lists[GenerateHistoryKey("1234")]) >= 2
  /\ JsonLoads(strings[GenerateKey("1234")]).last_updated
       > Embedded("1234", 1).last_updated

XStatus == Get(xresult, "status", Missing)

\* C13: every invocation of check_parking_location comes to return one result
\* whose status is found or error, whichever stage fails; no result exists
\* before a return statement ran; and when the result reaches the caller a
\* browser session that was opened has been quit.
C13_OneResultAndRelease ==
  /\ [](/\ xpc \notin {"idle", "finally", "returned"} => xresult = None
        /\ xpc \in {"finally", "returned"} =>
             /\ XStatus \in {"found", "error"}
             /\ XStatus = "found" <=> xstage = "none"
             /\ xresult.car_number = xcar
        /\ xpc = "returned" =>
             /\ driver # "open"
             /\ xstage # "driver" => driver = "quit")
  /\ (xpc = "setup") ~> (xpc = "returned")

C13_Witness ==
  /\ xpc = "returned" /\ xstage = "digits" /\ typed = 2
  /\ XStatus = "error" /\ driver = "quit"

C13_WitnessNoDriver == xpc = "returned" /\ xstage = "driver" /\ driver = "none"

\* C14 as stated: an error result carries a screenshot reference iff the
\* failing stage is the activation of the search control.
C14_ScreenshotIffSearch ==
  (xpc = "returned" /\ XStatus = "error")
    => ("screenshot" \in DOMAIN xresult <=> xstage = "search")

\* C14: an error result carries a screenshot reference iff the search control
\* could not be activated and the debug screenshot was saved (the reference is
\* the debug screenshot) or reading the result page failed (the reference is
\* the result screenshot saved just before).
C14_ScreenshotOnSearchOrParse ==
  (xpc = "returned" /\ XStatus = "error")
    => /\ "screenshot" \in DOMAIN xresult <=> xstage \in {"search", "parse"}
       /\ xstage = "search" => xresult.screenshot = ScreenshotDebug
       /\ xstage = "parse" => xresult.screenshot = ScreenshotLocation

C14_Witness ==
  /\ xpc = "returned" /\ xstage = "parse" /\ XStatus = "error"
  /\ xresult.screenshot = ScreenshotLocation

C14_WitnessSearch ==
  /\ xpc = "returned" /\ xstage = "search" /\ XStatus = "error"
  /\ xresult.screenshot = ScreenshotDebug

====
